---- MODULE Spec2Model ----
\* Model of src/src/ranges.js (Aloha Editor): range construction (create),
\* range comparison (equals) and the derivation of a range from a pixel
\* position (fromPosition, fromPoint, fromPointIE, findOffset, stepTextNode,
\* parentBlock).  The host document (tree, layout, hit-testing primitives) is
\* the environment of the module and is drawn from bounded sets.
EXTENDS Integers, Sequences, FiniteSets, TLC

VARIABLES env, rangeA, rangeB, ret

vars == <<env, rangeA, rangeB, ret>>

\* ------------------------------------------------------------------ bounds
\* Length of the text nodes that the fallback scan walks through.
MaxLen == 3
\* Largest probe coordinate on the x axis.
MaxX == 8

\* ------------------------------------------------------------ the document
\* doc
\*  body
\*    p              (outside of any editable)
\*      tp           "text"
\*    ed             contenteditable="true"   (editing host)
\*      t1           "text"
\*      d            (editable element)
\*        ne         contenteditable="false"  (non-editable block)
\*          sp       empty element
\*          t2       "text"
\*        br         empty element
\* det               (element that is not attached to the document)
\*   td              "text"
Nodes == {"doc", "body", "p", "tp", "ed", "t1", "d", "ne", "sp", "t2", "br", "det", "td"}

NoNode == "none"

DOCUMENT == 9
ELEMENT == 1
TEXT == 3

nodeType(n) ==
    IF n = "doc" THEN DOCUMENT
    ELSE IF n \in {"tp", "t1", "t2", "td"} THEN TEXT
    ELSE ELEMENT

childNodes(n) ==
    CASE n = "doc"  -> <<"body">>
      [] n = "body" -> <<"p", "ed">>
      [] n = "p"    -> <<"tp">>
      [] n = "ed"   -> <<"t1", "d">>
      [] n = "d"    -> <<"ne", "br">>
      [] n = "ne"   -> <<"sp", "t2">>
      [] n = "det"  -> <<"td">>
      [] OTHER      -> <<>>

\* node.length of a text node (number of characters)
textLength(n) ==
    CASE n \in {"t1", "t2"} -> MaxLen
      [] n \in {"tp", "td"} -> 1
      [] OTHER -> 0

contentEditable(n) ==
    CASE n = "ed" -> "true"
      [] n = "ne" -> "false"
      [] OTHER    -> "inherit"

IsChildOf(n, p) == \E i \in 1..Len(childNodes(p)) : childNodes(p)[i] = n

\* the tree, tabulated once
parentTable ==
    [n \in Nodes |-> IF \E p \in Nodes : IsChildOf(n, p)
                     THEN CHOOSE p \in Nodes : IsChildOf(n, p)
                     ELSE NoNode]

parentNode(n) == parentTable[n]

firstChild(n) == IF childNodes(n) = <<>> THEN NoNode ELSE childNodes(n)[1]

\* Position of n among the children of its parent, counted from 0
\* (the number of previous siblings); 0 for a node without parent.
indexTable ==
    [n \in Nodes |->
        IF parentNode(n) = NoNode THEN 0
        ELSE (CHOOSE i \in 1..Len(childNodes(parentNode(n))) :
                  childNodes(parentNode(n))[i] = n) - 1]

nodeIndex(n) == indexTable[n]

nextSibling(n) ==
    IF parentNode(n) = NoNode THEN NoNode
    ELSE IF nodeIndex(n) + 2 <= Len(childNodes(parentNode(n)))
         THEN childNodes(parentNode(n))[nodeIndex(n) + 2]
         ELSE NoNode

isTextNode(n) == nodeType(n) = TEXT

\* Length of a node in the sense of the DOM standard: characters of a text
\* node, children of any other node.
nodeLength(n) == IF isTextNode(n) THEN textLength(n) ELSE Len(childNodes(n))

RECURSIVE climbToRoot(_)
climbToRoot(n) == IF parentNode(n) = NoNode THEN n ELSE climbToRoot(parentNode(n))

rootTable == [n \in Nodes |-> climbToRoot(n)]

rootOf(n) == rootTable[n]

RECURSIVE climbAncestors(_)
climbAncestors(n) ==
    IF parentNode(n) = NoNode THEN {n}
    ELSE {n} \cup climbAncestors(parentNode(n))

ancestorTable == [n \in Nodes |-> climbAncestors(n)]

inclusiveAncestors(n) == ancestorTable[n]

RECURSIVE preorder(_)
RECURSIVE preorderAll(_)
preorder(n) == <<n>> \o preorderAll(childNodes(n))
preorderAll(s) ==
    IF s = <<>> THEN <<>> ELSE preorder(Head(s)) \o preorderAll(Tail(s))

\* Index of n in the tree order of its tree.
orderTable ==
    [n \in Nodes |->
        CHOOSE i \in 1..Len(preorder(rootOf(n))) : preorder(rootOf(n))[i] = n]

treeIndex(n) == orderTable[n]

\* A is following B: both are in the same tree and A comes after B in tree
\* order.
isFollowing(A, B) == rootOf(A) = rootOf(B) /\ treeIndex(A) > treeIndex(B)

\* The child of A that is an inclusive ancestor of B (A is a proper ancestor
\* of B).
childToward(A, B) ==
    CHOOSE c \in inclusiveAncestors(B) : parentNode(c) = A

\* Position of boundary point (A, oA) relative to (B, oB), both in the same
\* tree, for A not following B.
positionNotFollowing(A, oA, B, oB) ==
    IF A = B
    THEN (IF oA = oB THEN "equal" ELSE IF oA < oB THEN "before" ELSE "after")
    ELSE IF A \in inclusiveAncestors(B)
         THEN (IF nodeIndex(childToward(A, B)) < oA THEN "after" ELSE "before")
         ELSE "before"

\* Position of boundary point (A, oA) relative to (B, oB) (DOM standard).
bpPosition(A, oA, B, oB) ==
    IF isFollowing(A, B)
    THEN (IF positionNotFollowing(B, oB, A, oA) = "before" THEN "after" ELSE "before")
    ELSE positionNotFollowing(A, oA, B, oB)

\* ------------------------------------------------------------------ ranges
\* A live range of the host: its two boundary points.
NoRange == [sc |-> NoNode, so |-> 0, ec |-> NoNode, eo |-> 0]

\* document.createRange(): collapsed at the start of the document
createRange == [sc |-> "doc", so |-> 0, ec |-> "doc", eo |-> 0]

\* An offset is accepted by setStart/setEnd when it is not greater than the
\* node's length; a negative number converts to a huge unsigned long.
validOffset(n, o) == o >= 0 /\ o <= nodeLength(n)

\* range.setStart(n, o) for a valid offset
setStart(r, n, o) ==
    IF rootOf(n) # rootOf(r.sc) \/ bpPosition(n, o, r.ec, r.eo) = "after"
    THEN [sc |-> n, so |-> o, ec |-> n, eo |-> o]
    ELSE [r EXCEPT !.sc = n, !.so = o]

\* range.setEnd(n, o) for a valid offset
setEnd(r, n, o) ==
    IF rootOf(n) # rootOf(r.sc) \/ bpPosition(n, o, r.sc, r.so) = "before"
    THEN [sc |-> n, so |-> o, ec |-> n, eo |-> o]
    ELSE [r EXCEPT !.ec = n, !.eo = o]

\* range.commonAncestorContainer
commonAncestorContainer(r) ==
    CHOOSE n \in inclusiveAncestors(r.sc) \cap inclusiveAncestors(r.ec) :
        \A m \in inclusiveAncestors(r.sc) \cap inclusiveAncestors(r.ec) :
            m \in inclusiveAncestors(n)

\* Optional arguments are sequences of length 0 (omitted) or 1.
\* v || 0
OrZero(opt) == IF opt = <<>> THEN 0 ELSE opt[1]

\* The element of a singleton set.  A local variable of the source that is
\* computed once and read several times is bound as the element of a
\* singleton, which is evaluated once.
The(S) == CHOOSE v \in S : TRUE

\* Outcome of a call: a range, null, a boolean or a thrown failure.
Outcome(kind, r, err) == [kind |-> kind, range |-> r, err |-> err]

createEndAtStartOffset(sc, so, ec, eo) ==
    LET s == OrZero(so)
    IN  IF ~validOffset(sc, s) THEN Outcome("throw", NoRange, "IndexSizeError")
        ELSE IF ec # <<>>
        THEN (IF ~validOffset(ec[1], s)
              THEN Outcome("throw", NoRange, "IndexSizeError")
              ELSE Outcome("range", setEnd(setStart(createRange, sc, s), ec[1], s), ""))
        ELSE Outcome("range", setEnd(setStart(createRange, sc, s), sc, s), "")

\* create(sc, so, ec, eo)
create(sc, so, ec, eo) ==
    LET s == OrZero(so)
        e == OrZero(eo)
    IN  IF ~validOffset(sc, s) THEN Outcome("throw", NoRange, "IndexSizeError")
        ELSE IF ec # <<>>
        THEN (IF ~validOffset(ec[1], e)
              THEN Outcome("throw", NoRange, "IndexSizeError")
              ELSE Outcome("range", setEnd(setStart(createRange, sc, s), ec[1], e), ""))
        ELSE Outcome("range", setEnd(setStart(createRange, sc, s), sc, s), "")

equalsIgnoringEndOffset(r1, r2) ==
    /\ r1.sc = r2.sc
    /\ r1.so = r2.so
    /\ r1.ec = r2.ec

equalsStartOffsetAgainstEnd(r1, r2) ==
    /\ r1.sc = r2.sc
    /\ r1.so = r2.eo
    /\ r1.ec = r2.ec
    /\ r1.eo = r2.eo

\* equals(a, b)
equals(r1, r2) ==
    /\ r1.sc = r2.sc
    /\ r1.so = r2.so
    /\ r1.ec = r2.ec
    /\ r1.eo = r2.eo

\* ------------------------------------------------ layout of the host page
\* The children of the element that document.elementFromPoint answers are
\* laid out on one line that starts at x = ContentLeft and whose rectangles
\* all end at y = LineBottom.
ContentLeft == 1
LineBottom == 1

\* widths of a rendered character, and of a rendered child element
CharWidths == {1, 3}
ElemWidths == {0, 2}

\* Index (from 1) of the first text node among the children of el, 0 if none.
firstTextIndex(el) ==
    IF \E i \in 1..Len(childNodes(el)) : isTextNode(childNodes(el)[i])
    THEN CHOOSE i \in 1..Len(childNodes(el)) :
             /\ isTextNode(childNodes(el)[i])
             /\ \A j \in 1..(i - 1) : ~isTextNode(childNodes(el)[j])
    ELSE 0

\* Number of element children in front of the first text node of el.
leadingElements(el) ==
    IF firstTextIndex(el) = 0 THEN Len(childNodes(el)) ELSE firstTextIndex(el) - 1

\* Number of characters of the first text node of el.
scannedLength(el) ==
    IF firstTextIndex(el) = 0 THEN 0 ELSE textLength(childNodes(el)[firstTextIndex(el)])

RECURSIVE sumTo(_, _)
sumTo(ws, n) == IF n = 0 THEN 0 ELSE ws[n] + sumTo(ws, n - 1)

\* left edge of the i-th child of the hit element (env.ew: widths of the
\* leading element children, env.cw: widths of the characters)
childLeft(i) == ContentLeft + sumTo(env.ew, i - 1)

\* right edge of the k-th character (k = 0: the start of the text)
charRight(i, k) == childLeft(i) + sumTo(env.cw, k)

Rect(l, r) == [left |-> l, right |-> r, bottom |-> LineBottom]

\* boxes of the first n (element) children of the hit element
elementBoxes(n) == [i \in 1..n |-> Rect(childLeft(i), childLeft(i) + env.ew[i])]

\* box of the rendered text from its start to offset k; a range that holds
\* no character has a caret rectangle or none, depending on the host
textBoxes(i, k) ==
    IF k > 0 THEN <<Rect(childLeft(i), charRight(i, k))>>
    ELSE IF env.caret = "none" THEN <<>>
    ELSE IF env.caret = "zero" THEN <<Rect(childLeft(i), childLeft(i))>>
    ELSE <<Rect(childLeft(i), childLeft(i) + 1)>>

\* range.getClientRects() of a probe range, which starts at the start of the
\* contents of the hit element and ends after one of its leading element
\* children or inside its first text node.  Hosts differ in whether the
\* rectangle of the range is anchored at the start of the range ("span") or
\* is the box of the last rendered node of the range ("box").
getClientRects(r) ==
    LET boxes == IF r.ec = r.sc
                 THEN (IF r.eo = 0 THEN textBoxes(1, 0) ELSE elementBoxes(r.eo))
                 ELSE elementBoxes(nodeIndex(r.ec)) \o textBoxes(nodeIndex(r.ec) + 1, r.eo)
    IN  IF boxes = <<>> THEN <<>>
        ELSE IF env.anchor = "span" THEN <<Rect(ContentLeft, boxes[Len(boxes)].right)>>
        ELSE boxes

\* Arrays.last(list): the last element, undefined (here: <<>>) if empty
last(list) == IF list = <<>> THEN <<>> ELSE <<list[Len(list)]>>

\* ------------------------------------------------------ the fallback scan
pointIsInOrAboveRectExclusive(x, y, rect) ==
    y < rect.bottom /\ x > rect.left /\ x <= rect.right

\* pointIsInOrAboveRect(x, y, rect)
pointIsInOrAboveRect(x, y, rect) ==
    y < rect.bottom /\ x >= rect.left /\ x <= rect.right

\* One probe of the scan: the unit probed, the end offset of the probe range
\* and the last client rectangle that the host reported for it.
Probe(unit, off, rect) == [unit |-> unit, off |-> off, rect |-> rect]

Scan(node, index, probes, err) ==
    [node |-> node, index |-> index, probes |-> probes, err |-> err]

\* stepTextNode after range.setEnd(node, offset), with rect the last client
\* rectangle of the range
RECURSIVE stepTextNode(_, _, _, _, _)
probeTextNode(node, r, rect, offset, x, y) ==
    IF rect # <<>> /\ pointIsInOrAboveRect(x, y, rect[1])
    THEN Scan(node,
              IF rect[1].right - x > x - rect[1].left THEN offset - 1 ELSE offset,
              <<Probe(node, offset, rect)>>, "")
    ELSE IF offset < textLength(node)
    THEN The({[rest EXCEPT !.probes = <<Probe(node, offset, rect)>> \o @] :
                 rest \in {stepTextNode(node, r, offset + 1, x, y)}})
    ELSE Scan(node, offset, <<Probe(node, offset, rect)>>, "")

RECURSIVE stepTextNodePastEnd(_, _, _, _, _)
probeTextNodePastEnd(node, r, rect, offset, x, y) ==
    IF rect # <<>> /\ pointIsInOrAboveRect(x, y, rect[1])
    THEN Scan(node,
              IF rect[1].right - x > x - rect[1].left THEN offset - 1 ELSE offset,
              <<Probe(node, offset, rect)>>, "")
    ELSE IF offset <= textLength(node)
    THEN The({[rest EXCEPT !.probes = <<Probe(node, offset, rect)>> \o @] :
                 rest \in {stepTextNodePastEnd(node, r, offset + 1, x, y)}})
    ELSE Scan(node, offset, <<Probe(node, offset, rect)>>, "")

stepTextNodePastEnd(node, range, offset, x, y) ==
    IF ~validOffset(node, offset)
    THEN Scan(node, offset, <<Probe(node, offset, <<>>)>>, "IndexSizeError")
    ELSE The({The({probeTextNodePastEnd(node, r, rect, offset, x, y) :
                      rect \in {last(getClientRects(r))}}) :
                 r \in {setEnd(range, node, offset)}})

RECURSIVE stepTextNodeBiasTies(_, _, _, _, _)
probeTextNodeBiasTies(node, r, rect, offset, x, y) ==
    IF rect # <<>> /\ pointIsInOrAboveRect(x, y, rect[1])
    THEN Scan(node,
              IF rect[1].right - x >= x - rect[1].left THEN offset - 1 ELSE offset,
              <<Probe(node, offset, rect)>>, "")
    ELSE IF offset < textLength(node)
    THEN The({[rest EXCEPT !.probes = <<Probe(node, offset, rect)>> \o @] :
                 rest \in {stepTextNodeBiasTies(node, r, offset + 1, x, y)}})
    ELSE Scan(node, offset, <<Probe(node, offset, rect)>>, "")

stepTextNodeBiasTies(node, range, offset, x, y) ==
    IF ~validOffset(node, offset)
    THEN Scan(node, offset, <<Probe(node, offset, <<>>)>>, "IndexSizeError")
    ELSE The({The({probeTextNodeBiasTies(node, r, rect, offset, x, y) :
                      rect \in {last(getClientRects(r))}}) :
                 r \in {setEnd(range, node, offset)}})

\* stepTextNode(node, range, offset, x, y); range.setEnd fails for an offset
\* beyond the length of the node
stepTextNode(node, range, offset, x, y) ==
    IF ~validOffset(node, offset)
    THEN Scan(node, offset, <<Probe(node, offset, <<>>)>>, "IndexSizeError")
    ELSE The({The({probeTextNode(node, r, rect, offset, x, y) :
                      rect \in {last(getClientRects(r))}}) :
                 r \in {setEnd(range, node, offset)}})

\* findOffset for a node that is not a text node, after
\* range.setEndAfter(node), with rect the last client rectangle of the range
RECURSIVE findOffset(_, _, _, _)
probeNode(node, r, rect, x, y) ==
    IF rect # <<>> /\ pointIsInOrAboveRect(x, y, rect[1])
    THEN Scan(parentNode(node), nodeIndex(node),
              <<Probe(node, nodeIndex(node) + 1, rect)>>, "")
    ELSE IF nextSibling(node) # NoNode
    THEN The({[rest EXCEPT !.probes = <<Probe(node, nodeIndex(node) + 1, rect)>> \o @] :
                 rest \in {findOffset(nextSibling(node), r, x, y)}})
    ELSE Scan(parentNode(node), nodeIndex(node),
              <<Probe(node, nodeIndex(node) + 1, rect)>>, "")

\* findOffset(node, range, x, y); range.setEndAfter(node) sets the end to
\* (node.parentNode, nodeIndex(node) + 1)
findOffset(node, range, x, y) ==
    IF isTextNode(node)
    THEN stepTextNode(node, range, 0, x, y)
    ELSE The({The({probeNode(node, r, rect, x, y) :
                      rect \in {last(getClientRects(r))}}) :
                 r \in {setEnd(range, parentNode(node), nodeIndex(node) + 1)}})

\* Result of fromPoint: the outcome, the host hit-testing primitives that
\* were called, the probes of the fallback scan and the position that the
\* fallback handed to create (a sequence of length 0 or 1).
Hit(out, called, probes, pos) ==
    [out |-> out, called |-> called, probes |-> probes, pos |-> pos]

Pos(node, index) == [node |-> node, index |-> index]

\* the host has no answer (null)
NoPos == Pos(NoNode, 0)

\* fromPointIE from the position found: create(offset.node, offset.index)
rangeAtOffset(offset) ==
    IF offset.err # ""
    THEN Hit(Outcome("throw", NoRange, offset.err), {"elementFromPoint"},
             offset.probes, <<>>)
    ELSE Hit(create(offset.node, <<offset.index>>, <<>>, <<>>),
             {"elementFromPoint"}, offset.probes,
             <<Pos(offset.node, offset.index)>>)

\* fromPointIE(x, y, doc); doc.el is the answer of doc.elementFromPoint(x, y),
\* and reading el.firstChild of null fails.  The probe range is
\* selectNodeContents(el) collapsed to its start, and offset starts as
\* {node: el.firstChild, index: -1}.
fromPointIE(x, y, doc) ==
    IF doc.el = NoNode
    THEN Hit(Outcome("throw", NoRange, "TypeError"), {"elementFromPoint"}, <<>>, <<>>)
    ELSE The({rangeAtOffset(offset) :
                 offset \in {LET initial == Scan(firstChild(doc.el), -1, <<>>, "")
                             IN  IF initial.node = NoNode
                                 THEN Scan(parentNode(doc.el), nodeIndex(doc.el), <<>>, "")
                                 ELSE findOffset(initial.node,
                                                 [sc |-> doc.el, so |-> 0,
                                                  ec |-> doc.el, eo |-> 0], x, y)}})

fromPointBothNegative(x, y, doc) ==
    IF x < 0 /\ y < 0
    THEN Hit(Outcome("null", NoRange, ""), {}, <<>>, <<>>)
    ELSE IF "caretRangeFromPoint" \in doc.caps
    THEN Hit(IF doc.ans = NoPos THEN Outcome("null", NoRange, "")
             ELSE Outcome("range", [sc |-> doc.ans.node, so |-> doc.ans.index,
                                    ec |-> doc.ans.node, eo |-> doc.ans.index], ""),
             {"caretRangeFromPoint"}, <<>>, <<>>)
    ELSE IF "caretPositionFromPoint" \in doc.caps
    THEN Hit(IF doc.ans = NoPos THEN Outcome("throw", NoRange, "TypeError")
             ELSE create(doc.ans.node, <<doc.ans.index>>, <<>>, <<>>),
             {"caretPositionFromPoint"}, <<>>, <<>>)
    ELSE IF "elementFromPoint" \in doc.caps
    THEN fromPointIE(x, y, doc)
    ELSE Hit(Outcome("throw", NoRange, "unimplemented"), {}, <<>>, <<>>)

fromPointNoFallback(x, y, doc) ==
    IF x < 0 \/ y < 0
    THEN Hit(Outcome("null", NoRange, ""), {}, <<>>, <<>>)
    ELSE IF "caretRangeFromPoint" \in doc.caps
    THEN Hit(IF doc.ans = NoPos THEN Outcome("null", NoRange, "")
             ELSE Outcome("range", [sc |-> doc.ans.node, so |-> doc.ans.index,
                                    ec |-> doc.ans.node, eo |-> doc.ans.index], ""),
             {"caretRangeFromPoint"}, <<>>, <<>>)
    ELSE IF "caretPositionFromPoint" \in doc.caps
    THEN Hit(IF doc.ans = NoPos THEN Outcome("throw", NoRange, "TypeError")
             ELSE create(doc.ans.node, <<doc.ans.index>>, <<>>, <<>>),
             {"caretPositionFromPoint"}, <<>>, <<>>)
    ELSE Hit(Outcome("throw", NoRange, "unimplemented"), {}, <<>>, <<>>)

\* fromPoint(x, y, doc); doc.ans is the answer of the host's caret primitive
\* (NoPos: null), and reading pos.offsetNode of null fails
fromPoint(x, y, doc) ==
    IF x < 0 \/ y < 0
    THEN Hit(Outcome("null", NoRange, ""), {}, <<>>, <<>>)
    ELSE IF "caretRangeFromPoint" \in doc.caps
    THEN Hit(IF doc.ans = NoPos THEN Outcome("null", NoRange, "")
             ELSE Outcome("range", [sc |-> doc.ans.node, so |-> doc.ans.index,
                                    ec |-> doc.ans.node, eo |-> doc.ans.index], ""),
             {"caretRangeFromPoint"}, <<>>, <<>>)
    ELSE IF "caretPositionFromPoint" \in doc.caps
    THEN Hit(IF doc.ans = NoPos THEN Outcome("throw", NoRange, "TypeError")
             ELSE create(doc.ans.node, <<doc.ans.index>>, <<>>, <<>>),
             {"caretPositionFromPoint"}, <<>>, <<>>)
    ELSE IF "elementFromPoint" \in doc.caps
    THEN fromPointIE(x, y, doc)
    ELSE Hit(Outcome("throw", NoRange, "unimplemented"), {}, <<>>, <<>>)

\* ---------------------------------------------------------- editable state
\* Dom.isEditingHost(node)
isEditingHost(n) == nodeType(n) = ELEMENT /\ contentEditable(n) = "true"

\* Dom.isEditable(node): not an editing host, not contenteditable="false",
\* and the parent is an editing host or editable
RECURSIVE isEditable(_)
isEditable(n) ==
    /\ ~isEditingHost(n)
    /\ contentEditable(n) # "false"
    /\ parentNode(n) # NoNode
    /\ (isEditingHost(parentNode(n)) \/ isEditable(parentNode(n)))

\* Dom.isEditableNode(node)
isEditableNode(n) == isEditingHost(n) \/ isEditable(n)

\* Dom.editingHost(node)
RECURSIVE editingHost(_)
editingHost(n) ==
    IF isEditingHost(n) THEN n
    ELSE IF ~isEditable(n) THEN NoNode
    ELSE editingHost(parentNode(n))

\* Dom.upWhile(node, pred) with the predicate of parentBlock
RECURSIVE upWhileParentNotEditable(_)
upWhileParentNotEditable(n) ==
    IF n # NoNode /\ parentNode(n) # NoNode /\ ~isEditable(parentNode(n))
    THEN upWhileParentNotEditable(parentNode(n))
    ELSE n

\* parentBlock(node); NoNode stands for null
parentBlock(node) ==
    LET block  == IF isEditable(node) THEN editingHost(node) ELSE node
        parent == upWhileParentNotEditable(block)
    IN  IF nodeType(parent) = DOCUMENT THEN NoNode ELSE parent

rangeNearBlockInclusiveEdge(hit, x, doc) ==
    IF hit.out.kind = "throw" THEN hit.out
    ELSE IF hit.out.kind = "null" THEN Outcome("null", NoRange, "")
    ELSE IF isEditableNode(commonAncestorContainer(hit.out.range)) THEN hit.out
    ELSE
    LET block == parentBlock(commonAncestorContainer(hit.out.range))
    IN  IF block = NoNode \/ parentNode(block) = NoNode
        THEN Outcome("null", NoRange, "")
        ELSE
        LET pointX == x + doc.scroll
            blockX == doc.left + doc.scroll + doc.width
            offset == IF pointX >= blockX THEN nodeIndex(block) + 1
                      ELSE nodeIndex(block)
        IN  create(parentNode(block), <<offset>>, <<>>, <<>>)

fromPositionInclusiveEdge(x, y, doc) ==
    The({rangeNearBlockInclusiveEdge(hit, x, doc) : hit \in {fromPoint(x, y, doc)}})

\* fromPosition after var range = fromPoint(x, y, doc); a failure of
\* fromPoint is a failure of fromPosition.  doc.left is
\* Dom.offset(block).left, doc.width is block.offsetWidth and doc.scroll is
\* doc.body.scrollLeft
rangeNearBlock(hit, x, doc) ==
    IF hit.out.kind = "throw" THEN hit.out
    ELSE IF hit.out.kind = "null" THEN Outcome("null", NoRange, "")
    ELSE IF isEditableNode(commonAncestorContainer(hit.out.range)) THEN hit.out
    ELSE
    LET block == parentBlock(commonAncestorContainer(hit.out.range))
    IN  IF block = NoNode \/ parentNode(block) = NoNode
        THEN Outcome("null", NoRange, "")
        ELSE
        LET pointX == x + doc.scroll
            blockX == doc.left + doc.scroll + doc.width
            offset == IF pointX > blockX THEN nodeIndex(block) + 1
                      ELSE nodeIndex(block)
        IN  create(parentNode(block), <<offset>>, <<>>, <<>>)

\* fromPosition(x, y, doc)
fromPosition(x, y, doc) ==
    The({rangeNearBlock(hit, x, doc) : hit \in {fromPoint(x, y, doc)}})

\* ------------------------------------------------------- the environment
Primitives == {"caretRangeFromPoint", "caretPositionFromPoint", "elementFromPoint"}

\* positions that the host's caretRangeFromPoint / caretPositionFromPoint
\* may answer
Answers ==
    {Pos("t1", 1), Pos("d", 2), Pos("ne", 1), Pos("t2", 2), Pos("tp", 1),
     Pos("doc", 0), Pos("det", 0), Pos("td", 1)}

\* elements that the host's elementFromPoint may answer (NoNode: null)
HitElements == {"body", "p", "ed", "d", "ne", "sp", "br", NoNode}

\* Dom.offset(block).left and body.scrollLeft; block.offsetWidth is 2
Lefts == {1, 3}
Scrolls == {0, 1}

EnvDefault ==
    [caps |-> {}, ans |-> NoPos, el |-> NoNode, ew |-> <<>>, cw |-> <<>>,
     anchor |-> "box", caret |-> "none", left |-> 1, width |-> 2, scroll |-> 0]

\* fromPosition looks at the geometry of the block only for a position in a
\* non-editable block that has a parent
NeedsBlock(n) ==
    /\ n # NoNode
    /\ ~isEditableNode(n)
    /\ parentBlock(n) # NoNode
    /\ parentNode(parentBlock(n)) # NoNode

Geometries(relevant) ==
    IF relevant THEN {[left |-> l, scroll |-> sl] : l \in Lefts, sl \in Scrolls}
    ELSE {[left |-> EnvDefault.left, scroll |-> EnvDefault.scroll]}

\* documents whose first available primitive answers a caret position
CaretEnvs ==
    UNION {{[EnvDefault EXCEPT !.caps = c, !.ans = p, !.left = g.left,
                               !.scroll = g.scroll] :
               c \in {cc \in SUBSET Primitives :
                          cc \cap {"caretRangeFromPoint", "caretPositionFromPoint"} # {}},
               g \in Geometries(NeedsBlock(p.node))} :
           p \in Answers \cup {NoPos}}

\* documents that offer elementFromPoint only, with the layout of the
\* children of the element hit
LayoutsOf(e) ==
    IF e = NoNode \/ firstChild(e) = NoNode THEN {[EnvDefault EXCEPT !.el = e]}
    ELSE {[EnvDefault EXCEPT !.el = e, !.ew = ew, !.cw = cw, !.anchor = an,
                             !.caret = ca] :
             ew \in [1..leadingElements(e) -> ElemWidths],
             cw \in [1..scannedLength(e) -> CharWidths],
             an \in {"box", "span"}, ca \in {"none", "zero", "wide"}}

\* the nodes that the fallback can answer for the element hit
FallbackNodes(e) ==
    IF e = NoNode THEN {}
    ELSE IF firstChild(e) = NoNode THEN {parentNode(e)}
    ELSE {e} \cup {childNodes(e)[i] : i \in 1..Len(childNodes(e))}

FallbackEnvs ==
    UNION {{[e EXCEPT !.caps = {"elementFromPoint"}, !.left = g.left,
                      !.scroll = g.scroll] :
               e \in LayoutsOf(el),
               g \in Geometries(\E n \in FallbackNodes(el) : NeedsBlock(n))} :
           el \in HitElements}

Envs == {EnvDefault} \cup CaretEnvs \cup FallbackEnvs

\* ------------------------------------------------------------ operations
NoHit == Hit(Outcome("none", NoRange, ""), {}, <<>>, <<>>)

NoRet ==
    [op |-> "none", x |-> 0, y |-> 0, sc |-> NoNode, so |-> <<>>, ec |-> <<>>,
     eo |-> <<>>, r1 |-> NoRange, r2 |-> NoRange, same |-> FALSE,
     out |-> Outcome("none", NoRange, ""), hit |-> NoHit, eq |-> FALSE]

Xs == (-1)..MaxX
Ys == (-1)..LineBottom

\* A caller derives a range from a pixel position and keeps the result (a
\* range, or NoRange for null) unless the call fails.
FromPosition(x, y) ==
    \E out \in {fromPosition(x, y, env)}, hit \in {fromPoint(x, y, env)} :
        /\ ret' = [NoRet EXCEPT !.op = "fromPosition", !.x = x, !.y = y,
                                !.out = out, !.hit = hit]
        /\ rangeA' = IF out.kind = "throw" THEN rangeA ELSE out.range
        /\ UNCHANGED <<env, rangeB>>

CreateNodes == {"t1", "d"}
CreateEndNodes == {"t1", "d", "det"}
CreateOffsets == {<<>>, <<0>>, <<1>>, <<3>>}
CreateEndOffsets == {<<>>, <<1>>}

\* A caller creates a range and keeps it next to the one created before.
Create(sc, so, ec, eo) ==
    \E out \in {create(sc, so, ec, eo)} :
        /\ ret' = [NoRet EXCEPT !.op = "create", !.sc = sc, !.so = so, !.ec = ec,
                                !.eo = eo, !.out = out]
        /\ rangeA' = IF out.kind = "range" THEN out.range ELSE rangeA
        /\ rangeB' = IF out.kind = "range" THEN rangeA ELSE rangeB
        /\ UNCHANGED env

Slot(s) == IF s = "A" THEN rangeA ELSE rangeB

\* A caller compares two of the ranges it keeps (or one with itself).
Equals(s1, s2) ==
    /\ Slot(s1) # NoRange
    /\ Slot(s2) # NoRange
    /\ ret' = [NoRet EXCEPT !.op = "equals", !.r1 = Slot(s1), !.r2 = Slot(s2),
                            !.same = (s1 = s2),
                            !.eq = equals(Slot(s1), Slot(s2))]
    /\ UNCHANGED <<env, rangeA, rangeB>>

\* ------------------------------------------------------- specifications
\* Ranges: create, equals and fromPosition on two documents.
RangeEnvs ==
    {[EnvDefault EXCEPT !.caps = {"caretRangeFromPoint"}, !.ans = Pos("t2", 2)],
     [EnvDefault EXCEPT !.caps = {"elementFromPoint"}, !.el = "ed",
                        !.cw = [i \in 1..MaxLen |-> 3], !.caret = "zero"]}

Init ==
    /\ env \in RangeEnvs
    /\ rangeA = NoRange
    /\ rangeB = NoRange
    /\ ret = NoRet

Next ==
    \/ \E sc \in CreateNodes, so \in CreateOffsets,
          ec \in {<<>>} \cup {<<n>> : n \in CreateEndNodes}, eo \in CreateEndOffsets :
          Create(sc, so, ec, eo)
    \/ \E s1 \in {"A", "B"}, s2 \in {"A", "B"} : Equals(s1, s2)
    \/ \E x \in {-1, 2, MaxX} : FromPosition(x, 0)

Spec == Init /\ [][Next]_vars

\* Hit-testing: fromPosition on every document of Envs.
PosInit ==
    /\ env \in Envs
    /\ rangeA = NoRange
    /\ rangeB = NoRange
    /\ ret = NoRet

\* fromPosition is a function of the document and the point: one call on
\* each document
PosNext == ret.op = "none" /\ \E x \in Xs, y \in Ys : FromPosition(x, y)

PosSpec == PosInit /\ [][PosNext]_vars

\* ================================================================ claims
Call == ret.op = "fromPosition"

\* the position that the elementFromPoint fallback handed to create
FallbackPos == ret.hit.pos[1]

\* C1: fromPosition returns null whenever x < 0 or y < 0, on every document,
\* and no hit-testing primitive of the host is called.
C1_NegativeIsNull ==
    Call /\ (ret.x < 0 \/ ret.y < 0) =>
        /\ ret.out.kind = "null"
        /\ ret.hit.called = {}
        /\ ret.hit.probes = <<>>

C1_Witness ==
    /\ Call
    /\ ret.x < 0
    /\ ret.y >= 0
    /\ env.caps = {}
    /\ ret.out.kind = "null"

SameFields(r1, r2) ==
    <<r1.sc, r1.so, r1.ec, r1.eo>> = <<r2.sc, r2.so, r2.ec, r2.eo>>

\* C2: equals(a, b) is true if and only if the four boundary fields of a and
\* b are the same, and changing a single field of a range makes equals false.
C2_EqualsIffSameFields ==
    /\ ret.op = "equals" => (ret.eq <=> SameFields(ret.r1, ret.r2))
    /\ rangeA # NoRange =>
        /\ \A n \in Nodes \ {rangeA.sc} : ~equals(rangeA, [rangeA EXCEPT !.sc = n])
        /\ \A n \in Nodes \ {rangeA.ec} : ~equals(rangeA, [rangeA EXCEPT !.ec = n])
        /\ \A o \in (0..MaxLen) \ {rangeA.so} : ~equals(rangeA, [rangeA EXCEPT !.so = o])
        /\ \A o \in (0..MaxLen) \ {rangeA.eo} : ~equals(rangeA, [rangeA EXCEPT !.eo = o])

C2_Witness ==
    /\ ret.op = "equals"
    /\ ~ret.eq
    /\ ret.r1.eo # ret.r2.eo
    /\ [ret.r1 EXCEPT !.eo = ret.r2.eo] = ret.r2

\* C3: equals(r, r) is true for every range r that create or fromPosition
\* produced.
C3_EqualsReflexive ==
    /\ rangeA # NoRange => equals(rangeA, rangeA)
    /\ rangeB # NoRange => equals(rangeB, rangeB)
    /\ ret.op = "equals" /\ ret.same => ret.eq

C3_Witness ==
    /\ ret.op = "equals"
    /\ ret.same
    /\ ret.eq
    /\ ret.r1.so # ret.r1.eo

\* C4: create(sc, so) without end container returns the collapsed range
\* (sc, so, sc, so) for every valid offset, an omitted so counting as 0; with
\* an end container ec the end boundary is (ec, eo), an omitted eo counting
\* as 0.
C4_CreateBoundaries ==
    ret.op = "create" =>
        LET s == IF ret.so = <<>> THEN 0 ELSE ret.so[1]
            e == IF ret.eo = <<>> THEN 0 ELSE ret.eo[1]
        IN  /\ ret.ec = <<>> /\ s <= nodeLength(ret.sc) =>
                /\ ret.out.kind = "range"
                /\ ret.out.range = [sc |-> ret.sc, so |-> s, ec |-> ret.sc, eo |-> s]
            /\ ret.ec # <<>> /\ ret.out.kind = "range" =>
                /\ ret.out.range.ec = ret.ec[1]
                /\ ret.out.range.eo = e

C4_Witness ==
    /\ ret.op = "create"
    /\ ret.sc = "t1"
    /\ ret.so = <<3>>
    /\ ret.ec = <<>>
    /\ ret.out.range = [sc |-> "t1", so |-> 3, ec |-> "t1", eo |-> 3]

\* C5: in the elementFromPoint fallback, when the k-th character of the
\* scanned text node spans x and y is inside or above the line, the position
\* is the boundary of that character that is nearer to x.
C5_NearestBoundary ==
    Call /\ ret.hit.pos # <<>> /\ firstTextIndex(env.el) = 1
         /\ ret.y < LineBottom /\ env.caret # "wide" =>
        \A k \in 1..scannedLength(env.el) :
            LET left  == charRight(1, k - 1)
                right == charRight(1, k)
            IN  left <= ret.x /\ ret.x <= right =>
                    /\ ret.x - left < right - ret.x =>
                           FallbackPos = Pos(firstChild(env.el), k - 1)
                    /\ ret.x - left > right - ret.x =>
                           FallbackPos = Pos(firstChild(env.el), k)

\* C6: for x >= 0 and y >= 0, a document without any of the three
\* primitives makes fromPosition fail as unsupported, without calling any
\* primitive; with at least one primitive this failure never occurs.
C6_Unsupported ==
    Call =>
        /\ ret.x >= 0 /\ ret.y >= 0 /\ env.caps = {} =>
            /\ ret.out.kind = "throw"
            /\ ret.out.err = "unimplemented"
            /\ ret.hit.called = {}
        /\ env.caps # {} => ret.out.err # "unimplemented"

C6_Witness ==
    /\ Call
    /\ ret.x >= 0
    /\ ret.y >= 0
    /\ env.caps = {}
    /\ ret.out.err = "unimplemented"

\* the nearest inclusive ancestor of n that has no parent or whose parent is
\* editable
EnclosingBlock(n) ==
    CHOOSE m \in inclusiveAncestors(n) :
        /\ parentNode(m) = NoNode \/ isEditable(parentNode(m))
        /\ \A c \in inclusiveAncestors(n) :
               m \in inclusiveAncestors(c) /\ c # m =>
                   parentNode(c) # NoNode /\ ~isEditable(parentNode(c))

\* C7: when the hit-tested range lies in an editable node it is returned
\* unchanged; otherwise the result is null exactly when the climb reaches the
\* document or the block has no parent, and else a collapsed range in the
\* parent of the block at nodeIndex(block), plus one exactly when
\* x + scrollLeft > left + scrollLeft + offsetWidth.
C7_RangeNearBlock ==
    Call /\ ret.hit.out.kind = "range" =>
        LET c == commonAncestorContainer(ret.hit.out.range)
            block == EnclosingBlock(c)
            index == IF ret.x + env.scroll > env.left + env.scroll + env.width
                     THEN nodeIndex(block) + 1 ELSE nodeIndex(block)
        IN  IF isEditableNode(c)
            THEN ret.out = ret.hit.out
            ELSE IF nodeType(block) = DOCUMENT \/ parentNode(block) = NoNode
            THEN ret.out.kind = "null"
            ELSE /\ ret.out.kind = "range"
                 /\ ret.out.range = [sc |-> parentNode(block), so |-> index,
                                     ec |-> parentNode(block), eo |-> index]

C7_Witness ==
    /\ Call
    /\ ret.hit.out.kind = "range"
    /\ ret.hit.out.range.sc = "t2"
    /\ ret.out.kind = "range"
    /\ ret.out.range = [sc |-> "d", so |-> 1, ec |-> "d", eo |-> 1]

ProbeHits(p) ==
    /\ p.rect # <<>>
    /\ ret.y < p.rect[1].bottom
    /\ p.rect[1].left <= ret.x
    /\ ret.x <= p.rect[1].right

\* C8: the fallback scan starts at the first child of the hit element, moves
\* forward one unit per probe and stops at the first probe whose last client
\* rectangle contains or lies above the point; a hit on a non-text child gives
\* (parent, nodeIndex(child)), and without any hit the position is that of
\* the last unit probed.
C8_StopsAtFirstHit ==
    Call /\ ret.hit.probes # <<>> /\ ret.hit.pos # <<>> =>
        LET ps == ret.hit.probes
            lp == ps[Len(ps)]
        IN  /\ ps[1].unit = firstChild(env.el)
            /\ \A i \in 1..(Len(ps) - 1) :
                   /\ ~ProbeHits(ps[i])
                   /\ IF isTextNode(ps[i].unit)
                      THEN ps[i + 1].unit = ps[i].unit /\ ps[i + 1].off = ps[i].off + 1
                      ELSE ps[i + 1].unit = nextSibling(ps[i].unit)
            /\ isTextNode(ps[1].unit) => ps[1].off = 0
            /\ \A i \in 2..Len(ps) :
                   isTextNode(ps[i].unit) /\ ~isTextNode(ps[i - 1].unit) => ps[i].off = 0
            /\ ProbeHits(lp) /\ ~isTextNode(lp.unit) =>
                   FallbackPos = Pos(parentNode(lp.unit), nodeIndex(lp.unit))
            /\ ProbeHits(lp) /\ isTextNode(lp.unit) =>
                   FallbackPos.node = lp.unit /\ FallbackPos.index \in {lp.off - 1, lp.off}
            /\ ~ProbeHits(lp) =>
                   IF isTextNode(lp.unit)
                   THEN lp.off = textLength(lp.unit) /\ FallbackPos = Pos(lp.unit, lp.off)
                   ELSE /\ nextSibling(lp.unit) = NoNode
                        /\ FallbackPos = Pos(parentNode(lp.unit), nodeIndex(lp.unit))

C8_Witness ==
    /\ Call
    /\ Len(ret.hit.probes) = 2
    /\ ProbeHits(ret.hit.probes[2])
    /\ ~isTextNode(ret.hit.probes[2].unit)
    /\ ret.hit.pos = <<Pos(parentNode(ret.hit.probes[2].unit), 1)>>

\* C9: the fallback scan is a linear search: the probes move strictly
\* forward through the children of the hit element and through the offsets
\* 0..L of a text node of length L, no unit is probed twice, at most L + 1
\* probes are made in a text node, and no probe lies beyond the end of the
\* text node or of the list of siblings.
C9_LinearScan ==
    Call /\ ret.hit.probes # <<>> =>
        LET ps == ret.hit.probes
        IN  /\ \A i \in 1..Len(ps) :
                   /\ parentNode(ps[i].unit) = env.el
                   /\ isTextNode(ps[i].unit) =>
                          ps[i].off >= 0 /\ ps[i].off <= textLength(ps[i].unit)
            /\ \A i \in 1..Len(ps), j \in 1..Len(ps) :
                   i < j =>
                       \/ nodeIndex(ps[i].unit) < nodeIndex(ps[j].unit)
                       \/ /\ ps[i].unit = ps[j].unit
                          /\ isTextNode(ps[i].unit)
                          /\ ps[i].off < ps[j].off
            /\ \A t \in Nodes :
                   isTextNode(t) =>
                       Cardinality({i \in 1..Len(ps) : ps[i].unit = t}) <= textLength(t) + 1
            /\ Len(ps) <= leadingElements(env.el) + scannedLength(env.el) + 1

C9_Witness ==
    /\ Call
    /\ env.el = "ne"
    /\ Len(ret.hit.probes) = MaxLen + 2
    /\ ~ProbeHits(ret.hit.probes[MaxLen + 2])
    /\ ret.hit.pos = <<Pos("t2", MaxLen)>>

\* C10: on a host whose probe rectangle has zero width (or is missing) at
\* offset 0, every position that the fallback hands to create has a valid
\* index: never -1, and at most the length of the text node.
C10_ValidIndex ==
    Call /\ ret.hit.pos # <<>> /\ env.caret # "wide" =>
        /\ FallbackPos.index # -1
        /\ FallbackPos.index >= 0
        /\ FallbackPos.index <= nodeLength(FallbackPos.node)
        /\ ret.hit.out.kind = "range"

C10_Witness ==
    /\ Call
    /\ env.caret = "zero"
    /\ ret.hit.probes # <<>>
    /\ isTextNode(ret.hit.probes[1].unit)
    /\ Len(ret.hit.probes) = 1
    /\ ProbeHits(ret.hit.probes[1])
    /\ ret.hit.pos = <<Pos(ret.hit.probes[1].unit, 0)>>
====
